---- MODULE Spec2Model ----
(***************************************************************************)
(* VoluMapper: the freshness-gated snapshot cache.                         *)
(*                                                                         *)
(*   aws_poller/__main__.py  track_results(data_dir, freshness).wrapper    *)
(*   pollers/utils.py        get_last_file_timestamp, setup_dir            *)
(*                                                                         *)
(* A partition is one directory results/<ident>/<region>/<data_dir>; it    *)
(* holds files named "<epoch seconds>.pkl", each the pickle of one fetch.  *)
(* File names are sequences of one-character strings and file contents are *)
(* sequences of pickle tokens, so that formatting an instant into a name,  *)
(* parsing a name back into an instant, and dumping and loading a payload  *)
(* are computed, not assumed.                                              *)
(***************************************************************************)
EXTENDS Integers, Sequences, FiniteSets, TLC

VARIABLES
    files,      \* the partition directory: file name -> file content
    clock,      \* what int(datetime.utcnow().strftime("%s")) returns now
    call,       \* the most recent finished wrapper call (or NoCall)
    prev,       \* the wrapper call finished before `call` (or NoCall)
    ncalls,     \* number of wrapper calls made so far
    recorded,   \* history: instant -> payloads dumped at it, oldest first
    listing,    \* ScanSpec: the names os.listdir returned, in its order
    scanned,    \* ScanSpec: what get_last_file_timestamp returned for them
    procs,      \* ConcSpec: each process's position in the wrapper and locals
    hist,       \* ConcSpec history: the last fetch and the writes begun
    tree,       \* the file tree of one account: (region, data dir) -> directory
    pruned,     \* the most recent run of cleanup_old_data
    run,        \* AggSpec: the locals of AWSRegionPollerFactory.run
    conv,       \* VolSpec: the provider's volumes and what get_volumes returned
    report      \* ReportSpec: the two collections and the rows of the table

\* what only PruneSpec, MaintSpec, RaceSpec, AggSpec, VolSpec, ReportSpec change
extraVars == <<tree, pruned, run, conv, report>>

vars == <<files, clock, call, prev, ncalls, recorded, listing, scanned, procs, hist,
          extraVars>>

\* what only ScanSpec and ConcSpec change
otherVars == <<listing, scanned, procs, hist, extraVars>>

-----------------------------------------------------------------------------
(* Bounds of the model. *)

\* seconds the clock may run past the start of a freshness period
MaxSecs == 1
\* wrapper calls in one behaviour of Spec
MaxCalls == 3
\* entries in one directory listing of ScanSpec
MaxEntries == 3
\* wrapper calls in one behaviour of ConcSpec, over both processes
MaxRuns == 2

-----------------------------------------------------------------------------
(* Values. *)

\* Python's None, and an optional instant: <<>> is None, <<t>> is the int t.
None == <<>>

Some(t) == <<t>>

\* @track_results(..., freshness=24*60*60) on get_volumes and get_instances
freshness == 24 * 60 * 60

\* the domain records a fetch can return (EC2Instance / EBSVolume tuples)
Records == {"i-1", "i-2"}

\* the lists a fetch returns: empty, one record, two records in either order
Payloads == {<<>>, <<"i-1">>, <<"i-1", "i-2">>, <<"i-2", "i-1">>}

\* every value the clock takes: the first seconds of two freshness periods,
\* so that an elapsed time can be below, equal to and above `freshness`
Instants == {d * freshness + s : d \in {0, 1}, s \in 0..MaxSecs}

\* what `method(self)` does: raises, or returns a list
Outcomes == {[raised |-> TRUE, value |-> <<>>]}
            \cup {[raised |-> FALSE, value |-> p] : p \in Payloads}

-----------------------------------------------------------------------------
(* "{}".format(n) and int(s). *)

DigitChars == <<"0", "1", "2", "3", "4", "5", "6", "7", "8", "9">>

RECURSIVE str(_)
\* "{}".format(n) for an int n: decimal, no padding, "-" for negatives
str(n) ==
    IF n < 0 THEN <<"-">> \o str(-n)
    ELSE IF n < 10 THEN <<DigitChars[n + 1]>>
    ELSE str(n \div 10) \o <<DigitChars[(n % 10) + 1]>>

\* "{}.pkl".format(t): lines 103 and 117
pkl_name(t) == str(t) \o <<".", "p", "k", "l">>

\* "{}.pkl".format(None): line 103 when the directory has no timestamp
none_name == <<"N", "o", "n", "e", ".", "p", "k", "l">>

RECURSIVE split_first(_)
\* filename.split(".")[0]: the part before the first "."
split_first(name) ==
    IF name = <<>> \/ Head(name) = "." THEN <<>>
    ELSE <<Head(name)>> \o split_first(Tail(name))

IsDigit(c) == \E i \in 1..10 : DigitChars[i] = c

DigitValue(c) == (CHOOSE i \in 1..10 : DigitChars[i] = c) - 1

RECURSIVE strip(_)
\* s.strip() as int() applies it: blanks off both ends
strip(s) ==
    IF s = <<>> THEN s
    ELSE IF Head(s) = " " THEN strip(Tail(s))
    ELSE IF s[Len(s)] = " " THEN strip(SubSeq(s, 1, Len(s) - 1))
    ELSE s

RECURSIVE digits_value(_)
digits_value(s) ==
    IF s = <<>> THEN 0
    ELSE 10 * digits_value(SubSeq(s, 1, Len(s) - 1)) + DigitValue(s[Len(s)])

\* int(s), base 10: blanks stripped, an optional sign, then one or more
\* digits; anything else is a ValueError, given here as None.
int(s) ==
    LET t == strip(s)
        signed == t # <<>> /\ Head(t) \in {"+", "-"}
        body == IF signed THEN Tail(t) ELSE t
    IN  IF body = <<>> \/ \E i \in 1..Len(body) : ~IsDigit(body[i])
        THEN None
        ELSE Some(IF signed /\ Head(t) = "-" THEN -digits_value(body)
                  ELSE digits_value(body))

-----------------------------------------------------------------------------
(* cPickle.dump and cPickle.load of a list, as the stream of protocol-0     *)
(* opcodes: "(l" opens the list, each item is followed by "a" (append),     *)
(* and "." (stop) ends the pickle.                                          *)

RECURSIVE pickle_items(_)
pickle_items(p) ==
    IF p = <<>> THEN <<>>
    ELSE <<Head(p), "a">> \o pickle_items(Tail(p))

\* faulty variant of pickle_dump: the last item is not dumped
pickle_dump_short(p) ==
    <<"(l">> \o pickle_items(SubSeq(p, 1, Len(p) - 1)) \o <<".">>

\* cPickle.dump(results, out_file): line 126
pickle_dump(p) == <<"(l">> \o pickle_items(p) \o <<".">>

\* cPickle.load(in_file): line 130.  A stream that does not open with "(l",
\* does not end with "." or does not alternate item and "a" between them,
\* raises (EOFError on a truncated stream): ok is FALSE.
pickle_load(c) ==
    LET n == Len(c)
        well == /\ n >= 2
                /\ c[1] = "(l"
                /\ c[n] = "."
                /\ (n - 2) % 2 = 0
                /\ \A i \in 2..(n - 1) :
                      IF i % 2 = 1 THEN c[i] = "a" ELSE c[i] \in Records
    IN  IF well
        THEN [ok |-> TRUE, value |-> [i \in 1..((n - 2) \div 2) |-> c[2 * i]]]
        ELSE [ok |-> FALSE, value |-> <<>>]

-----------------------------------------------------------------------------
(* The partition directory. *)

\* the directory setup_dir leaves behind: it exists and is empty
EmptyDir == [name \in {} |-> <<>>]

\* os.listdir(path): the names of the directory, in arbitrary order
listdir(dir) ==
    LET names == DOMAIN dir
        n == Cardinality(names)
    IN  {l \in [1..n -> names] : \A i, j \in 1..n : l[i] = l[j] => i = j}

\* os.path.exists(file_path)
exists(dir, name) == name \in DOMAIN dir

\* faulty variant of write_file: the directory is left with the new file only
write_file_alone(dir, name, content) == [f \in {name} |-> content]

\* with open(file_path, "wb") as out_file: cPickle.dump(results, out_file)
\* run to completion: the file is created or truncated and holds the dump
write_file(dir, name, content) ==
    [f \in DOMAIN dir \cup {name} |-> IF f = name THEN content ELSE dir[f]]

-----------------------------------------------------------------------------
(* pollers/utils.py: get_last_file_timestamp *)

\* faulty variant of scan_step: the comparison is turned round
scan_step_smaller(last_timestamp, filename) ==
    LET timestamp == int(split_first(filename))
    IN  IF timestamp = None THEN last_timestamp
        ELSE IF last_timestamp = None \/ timestamp[1] < last_timestamp[1]
             THEN timestamp
             ELSE last_timestamp

\* faulty variant of scan_step: the comparison is left out
scan_step_last(last_timestamp, filename) ==
    LET timestamp == int(split_first(filename))
    IN  IF timestamp = None THEN last_timestamp ELSE timestamp

\* One turn of the loop: a name whose stem is not an int is skipped
\* (except ValueError: continue); otherwise the larger timestamp is kept.
scan_step(last_timestamp, filename) ==
    LET timestamp == int(split_first(filename))
    IN  IF timestamp = None THEN last_timestamp
        ELSE IF last_timestamp = None \/ timestamp[1] > last_timestamp[1]
             THEN timestamp
             ELSE last_timestamp

RECURSIVE scan_from(_, _)
scan_from(names, last_timestamp) ==
    IF names = <<>> THEN last_timestamp
    ELSE scan_from(Tail(names), scan_step(last_timestamp, Head(names)))

\* faulty variant of get_last_file_timestamp: the listing is taken to be
\* sorted, newest first
get_last_first_listed(names) ==
    IF names = <<>> THEN None ELSE int(split_first(Head(names)))

\* last_timestamp = None; for filename in os.listdir(path): ...
get_last_file_timestamp(names) == scan_from(names, None)

-----------------------------------------------------------------------------
(* aws_poller/__main__.py: track_results(...).wrapper *)

\* faulty variant of must_refresh: >= in place of >
must_refresh_at_budget(force_grab, last_timestamp, epoch_secs) ==
    \/ force_grab
    \/ last_timestamp = None
    \/ epoch_secs - last_timestamp[1] >= freshness

\* line 108: self.force_grab or last_timestamp is None
\*           or (epoch_secs - last_timestamp) > freshness
must_refresh(force_grab, last_timestamp, epoch_secs) ==
    \/ force_grab
    \/ last_timestamp = None
    \/ epoch_secs - last_timestamp[1] > freshness

\* lines 110-114: results = method(...); except Exception: results = []
fetch_results(outcome) ==
    IF outcome.raised THEN <<>> ELSE outcome.value

\* faulty variant of truthy: `if results is not None`
truthy_not_none(results) == TRUE

\* line 116: `if results:` - a list is true when it is not empty
truthy(results) == results # <<>>

\* faulty variant of store_results: written under another extension than
\* the one the REUSE path opens
store_results_tmp(dir, epoch_secs, results) ==
    IF truthy(results)
    THEN write_file(dir, str(epoch_secs) \o <<".", "t", "m", "p">>, pickle_dump(results))
    ELSE dir

\* faulty variant of store_results: written whatever the result
store_results_always(dir, epoch_secs, results) ==
    write_file(dir, pkl_name(epoch_secs), pickle_dump(results))

\* faulty variant of store_results: a false result empties the directory
store_results_clears(dir, epoch_secs, results) ==
    IF truthy(results)
    THEN write_file(dir, pkl_name(epoch_secs), pickle_dump(results))
    ELSE EmptyDir

\* lines 116-126: the file is written only for a true result
store_results(dir, epoch_secs, results) ==
    IF truthy(results)
    THEN write_file(dir, pkl_name(epoch_secs), pickle_dump(results))
    ELSE dir

\* faulty variant of load_results: a missing file reads as the empty list
load_results_swallows(dir, last_timestamp) ==
    LET last_file_path == IF last_timestamp = None THEN none_name
                          ELSE pkl_name(last_timestamp[1])
    IN  IF ~exists(dir, last_file_path)
        THEN [raised |-> "", value |-> <<>>]
        ELSE LET got == pickle_load(dir[last_file_path])
             IN  IF got.ok THEN [raised |-> "", value |-> got.value]
                 ELSE [raised |-> "EOFError", value |-> <<>>]

\* faulty variant of load_results: the oldest snapshot is read
load_results_oldest(dir, last_timestamp) ==
    LET snapshots == {n \in DOMAIN dir : int(split_first(n)) # None}
    IN  IF last_timestamp = None \/ snapshots = {}
        THEN [raised |-> "IOError", value |-> <<>>]
        ELSE LET oldest == CHOOSE n \in snapshots : \A m \in snapshots :
                               int(split_first(n))[1] <= int(split_first(m))[1]
                 got == pickle_load(dir[oldest])
             IN  IF got.ok THEN [raised |-> "", value |-> got.value]
                 ELSE [raised |-> "EOFError", value |-> <<>>]

\* lines 128-130: open(last_file_path) raises IOError when the file is
\* missing, cPickle.load raises on a stream that is not a whole pickle
load_results(dir, last_timestamp) ==
    LET last_file_path == IF last_timestamp = None THEN none_name
                          ELSE pkl_name(last_timestamp[1])
    IN  IF ~exists(dir, last_file_path)
        THEN [raised |-> "IOError", value |-> <<>>]
        ELSE LET got == pickle_load(dir[last_file_path])
             IN  IF got.ok THEN [raised |-> "", value |-> got.value]
                 ELSE [raised |-> "EOFError", value |-> <<>>]

\* The whole wrapper, lines 99-132, on directory `dir` listed as `names`,
\* with the clock reading epoch_secs and the decorated method behaving as
\* `outcome` if it is called.
wrapper(dir, names, epoch_secs, force_grab, outcome) ==
    LET last_timestamp == get_last_file_timestamp(names)
    IN  IF must_refresh(force_grab, last_timestamp, epoch_secs)
        THEN LET results == fetch_results(outcome)
             IN  [path |-> "REFRESH",
                  force |-> force_grab,
                  now |-> epoch_secs,
                  last |-> last_timestamp,
                  fetched |-> TRUE,
                  outcome |-> outcome,
                  results |-> results,
                  raised |-> "",
                  warned |-> truthy(results) /\ exists(dir, pkl_name(epoch_secs)),
                  before |-> dir,
                  after |-> store_results(dir, epoch_secs, results)]
        ELSE LET got == load_results(dir, last_timestamp)
             IN  [path |-> "REUSE",
                  force |-> force_grab,
                  now |-> epoch_secs,
                  last |-> last_timestamp,
                  fetched |-> FALSE,
                  outcome |-> [raised |-> FALSE, value |-> <<>>],
                  results |-> got.value,
                  raised |-> got.raised,
                  warned |-> FALSE,
                  before |-> dir,
                  after |-> dir]

\* no wrapper call has finished yet
NoCall ==
    [path |-> "NONE", force |-> FALSE, now |-> 0, last |-> None,
     fetched |-> FALSE, outcome |-> [raised |-> FALSE, value |-> <<>>],
     results |-> <<>>, raised |-> "", warned |-> FALSE,
     before |-> EmptyDir, after |-> EmptyDir]

-----------------------------------------------------------------------------
(* Spec: one process calls the wrapper on one partition again and again,    *)
(* each call run to completion, while the clock moves between the calls.    *)

\* history: the payloads dumped at each instant, oldest first
record_write(rec, c) ==
    IF c.after # c.before \/ c.warned
    THEN [rec EXCEPT ![c.now] = Append(@, c.results)]
    ELSE rec

\* before the first run of cleanup_old_data
NoPrune == [runs |-> 0, first |-> <<>>, before |-> <<>>, orders |-> <<>>]

\* the variables of the other specifications, at rest
ExtraInit ==
    /\ tree = <<>>
    /\ pruned = NoPrune
    /\ run = <<>>
    /\ conv = <<>>
    /\ report = <<>>

Init ==
    /\ files = EmptyDir
    /\ clock = 0
    /\ call = NoCall
    /\ prev = NoCall
    /\ ncalls = 0
    /\ recorded = [t \in Instants |-> <<>>]
    /\ listing = <<>>
    /\ scanned = None
    /\ procs = <<>>
    /\ hist = <<>>
    /\ ExtraInit

\* get_volumes() or get_instances() is called: the decorated method runs
\* under the wrapper
Call(force_grab, outcome, names) ==
    /\ ncalls < MaxCalls
    /\ LET c == wrapper(files, names, clock, force_grab, outcome)
       IN  /\ files' = c.after
           /\ call' = c
           /\ prev' = [call EXCEPT !.before = EmptyDir, !.after = EmptyDir]
           /\ recorded' = record_write(recorded, c)
    /\ ncalls' = ncalls + 1
    /\ UNCHANGED <<clock, otherVars>>

\* a second passes
Tick ==
    /\ clock + 1 \in Instants
    /\ clock' = clock + 1
    /\ UNCHANGED <<files, call, prev, ncalls, recorded, otherVars>>

\* a freshness period passes
NextDay ==
    /\ clock + freshness \in Instants
    /\ clock' = clock + freshness
    /\ UNCHANGED <<files, call, prev, ncalls, recorded, otherVars>>

\* the clock is set back a second (skew between hosts, an adjustment)
ClockBack ==
    /\ clock - 1 \in Instants
    /\ clock' = clock - 1
    /\ UNCHANGED <<files, call, prev, ncalls, recorded, otherVars>>

Next ==
    \/ \E force_grab \in BOOLEAN, outcome \in Outcomes, names \in listdir(files) :
          Call(force_grab, outcome, names)
    \/ Tick
    \/ NextDay
    \/ ClockBack

Spec == Init /\ [][Next]_vars

-----------------------------------------------------------------------------
(* What the claims speak of, read off the directory itself. *)

\* the instants of the entries whose stem is an int
dir_instants(dir) ==
    {int(split_first(n))[1] : n \in {m \in DOMAIN dir : int(split_first(m)) # None}}

\* the greatest of them, or None
dir_latest(dir) ==
    LET S == dir_instants(dir)
    IN  IF S = {} THEN None ELSE Some(CHOOSE m \in S : \A x \in S : x <= m)

\* the call took REFRESH and its fetch returned a non-empty list
Stored(c) ==
    c.path = "REFRESH" /\ ~c.outcome.raised /\ c.outcome.value # <<>>

\* the payload a reader gets from the snapshot at instant t
payload_at(dir, t) == load_results(dir, Some(t))

-----------------------------------------------------------------------------
\* C1: the wrapper takes REFRESH (and calls the remote fetch) exactly when
\* force is set, or the partition has no snapshot, or now - latest exceeds
\* the budget; otherwise it takes REUSE and fetches nothing - also when
\* now - latest equals the budget or is negative.
C1_RefreshIff ==
    call.path # "NONE" =>
        LET latest == dir_latest(call.before)
            refresh == \/ call.force
                       \/ latest = None
                       \/ call.now - latest[1] > freshness
        IN  /\ call.path = (IF refresh THEN "REFRESH" ELSE "REUSE")
            /\ call.fetched = refresh
            /\ call.last = latest

\* C1 witness: a REUSE at an elapsed time equal to the budget, right after a
\* REUSE under clock skew (now before the latest instant).
C1_Witness ==
    /\ call.path = "REUSE" /\ ~call.force
    /\ call.now - call.last[1] = freshness
    /\ prev.path = "REUSE" /\ ~prev.force
    /\ prev.now < prev.last[1]

\* C2 as stated: two calls in immediate succession (same clock reading),
\* both without force, make exactly one remote fetch between them, and the
\* second reuses what the first wrote and returns the same records.
C2_ExactlyOneFetch ==
    (/\ prev.path # "NONE" /\ ~prev.force /\ ~call.force
     /\ call.now = prev.now)
    => /\ prev.fetched /\ ~call.fetched
       /\ call.path = "REUSE"
       /\ call.results = prev.results

\* C2 amended: when the first of two unforced calls takes REFRESH and its
\* fetch returns a non-empty list, a second call no more than the budget
\* later makes no fetch, reuses the snapshot the first call wrote and
\* returns the same records: one fetch over the two calls.
C2_OneFetchAfterStoredRefresh ==
    (/\ Stored(prev) /\ ~prev.force /\ ~call.force
     /\ call.now - prev.now <= freshness)
    => /\ prev.fetched /\ ~call.fetched
       /\ call.path = "REUSE"
       /\ call.raised = ""
       /\ call.last = Some(prev.now)
       /\ call.results = prev.results

\* C2 witness: the second call reused a two-record snapshot written by the
\* first at the same clock reading.
C2_Witness ==
    /\ Stored(prev) /\ ~prev.force /\ ~call.force
    /\ call.now = prev.now
    /\ call.path = "REUSE"
    /\ Len(call.results) = 2

\* C3: a REFRESH whose remote fetch raises returns the empty list, raises
\* nothing to the caller and leaves the partition's files as they were.
C3_FetchErrorSwallowed ==
    (call.path = "REFRESH" /\ call.outcome.raised)
    => /\ call.results = <<>>
       /\ call.raised = ""
       /\ files = call.before
       /\ dir_latest(files) = call.last

\* C3 witness: the fetch raised on a partition that already held a snapshot.
C3_Witness ==
    /\ call.path = "REFRESH" /\ call.outcome.raised
    /\ call.before # EmptyDir

\* C4: a REFRESH whose remote fetch returns the empty list returns it and
\* creates no snapshot: the partition's files are as they were.
C4_EmptyFetchNotStored ==
    (call.path = "REFRESH" /\ ~call.outcome.raised /\ call.outcome.value = <<>>)
    => /\ call.results = <<>>
       /\ call.raised = ""
       /\ files = call.before
       /\ (exists(files, pkl_name(call.now)) => exists(call.before, pkl_name(call.now)))

\* C4 witness: an empty fetch on an empty partition, which stays empty.
C4_Witness ==
    /\ call.path = "REFRESH" /\ ~call.outcome.raised /\ call.outcome.value = <<>>
    /\ call.before = EmptyDir
    /\ files = EmptyDir

\* C5: after a REFRESH that fetched a non-empty payload P at instant T, the
\* snapshot at T loads as exactly P, and a REUSE that finds T the latest
\* instant returns exactly P.
C5_RoundTrip ==
    /\ Stored(call) =>
          /\ exists(files, pkl_name(call.now))
          /\ payload_at(files, call.now) = [raised |-> "", value |-> call.outcome.value]
          /\ call.results = call.outcome.value
    /\ (Stored(prev) /\ call.path = "REUSE" /\ call.last = Some(prev.now)) =>
          /\ call.raised = ""
          /\ call.results = prev.outcome.value

\* C5 witness: a REUSE returned the two-record payload the call before it
\* had fetched and stored.
C5_Witness ==
    /\ Stored(prev) /\ call.path = "REUSE" /\ call.last = Some(prev.now)
    /\ call.results = <<"i-2", "i-1">>

-----------------------------------------------------------------------------
\* the latest-instant scan returns `t` whatever order the directory lists in
ScanReturns(dir, t) ==
    \A names \in listdir(dir) : get_last_file_timestamp(names) = t

\* C8 as stated: a forced refresh on a partition whose latest snapshot is at
\* T0, with a non-empty fetch, writes a new snapshot at an instant T1 > T0,
\* and the latest-instant scan then returns T1.
C8_ForcedRefreshIsLater ==
    (call.force /\ Stored(call) /\ call.last # None)
    => /\ call.now > call.last[1]
       /\ ~exists(call.before, pkl_name(call.now))
       /\ ScanReturns(files, Some(call.now))

\* C8 amended: the forced refresh writes its snapshot at the instant T1 the
\* clock reads.  If T1 > T0 the snapshot is new, the scan returns T1 and the
\* snapshot at T1 holds the fetched records; if T1 = T0 the snapshot at T0
\* is overwritten with them; if T1 < T0 the scan still returns T0.
C8_ForcedRefreshAtClock ==
    (call.force /\ Stored(call) /\ call.last # None)
    => /\ exists(files, pkl_name(call.now))
       /\ payload_at(files, call.now).value = call.results
       /\ call.now > call.last[1] =>
             /\ ~exists(call.before, pkl_name(call.now))
             /\ ScanReturns(files, Some(call.now))
       /\ call.now = call.last[1] =>
             /\ call.warned
             /\ DOMAIN files = DOMAIN call.before
             /\ ScanReturns(files, call.last)
       /\ call.now < call.last[1] => ScanReturns(files, call.last)

\* C8 witness: a forced refresh a day after the latest snapshot stored a new
\* latest snapshot.
C8_Witness ==
    /\ call.force /\ Stored(call) /\ call.last # None
    /\ call.now > call.last[1]
    /\ Cardinality(DOMAIN files) >= 2
    /\ dir_latest(files) = Some(call.now)

\* no two entries of the directory have the same instant
UniqueInstants(dir) ==
    \A n1, n2 \in DOMAIN dir :
        (int(split_first(n1)) # None /\ int(split_first(n1)) = int(split_first(n2)))
        => n1 = n2

\* C9 as stated: no two snapshots share an instant, and the payload stored
\* at an instant T is the payload that was first recorded at T.
C9_WriteOnce ==
    /\ UniqueInstants(files)
    /\ \A t \in Instants :
          recorded[t] # <<>> =>
              payload_at(files, t) = [raised |-> "", value |-> recorded[t][1]]

\* C9 amended: no two snapshots share an instant, and the payload stored at
\* an instant T is the one most recently recorded at T: a call whose clock
\* reads T and that stores a result overwrites the snapshot at T (with the
\* warning), and no call changes or removes the snapshot at another instant.
C9_LastWriteWins ==
    /\ UniqueInstants(files)
    /\ dir_instants(files) = {t \in Instants : recorded[t] # <<>>}
    /\ \A t \in Instants :
          recorded[t] # <<>> =>
              payload_at(files, t) =
                  [raised |-> "", value |-> recorded[t][Len(recorded[t])]]
    /\ \A n \in DOMAIN call.before :
          /\ n \in DOMAIN files
          /\ files[n] # call.before[n] => (n = pkl_name(call.now) /\ call.warned)

\* C9 witness: a snapshot was overwritten with other records at its instant
\* while another snapshot stayed as it was.
C9_Witness ==
    /\ call.warned
    /\ files[pkl_name(call.now)] # call.before[pkl_name(call.now)]
    /\ Cardinality(DOMAIN files) >= 2

-----------------------------------------------------------------------------
(* ScanSpec: get_last_file_timestamp on directory listings of every kind:   *)
(* snapshot names, names whose stem is a number written another way, and    *)
(* names whose stem is no number, in every order os.listdir may give.       *)

ScanNames ==
    {pkl_name(3), pkl_name(5), pkl_name(9), pkl_name(10),
     <<"0", "7", ".", "p", "k", "l">>,
     <<"-", "3", ".", "p", "k", "l">>,
     <<"1", ".", "5", ".", "p", "k", "l">>,
     <<"R", "E", "A", "D", "M", "E">>,
     <<"a", "b", "c", ".", "p", "k", "l">>,
     <<"5", "a", ".", "p", "k", "l">>,
     <<".", "p", "k", "l">>}

\* the listings of directories of up to MaxEntries of these entries
ScanListings ==
    UNION {{l \in [1..n -> ScanNames] : \A i, j \in 1..n : l[i] = l[j] => i = j}
           : n \in 0..MaxEntries}

ScanInit ==
    /\ listing \in ScanListings
    /\ scanned = <<>>
    /\ files = EmptyDir
    /\ clock = 0
    /\ call = NoCall
    /\ prev = NoCall
    /\ ncalls = 0
    /\ recorded = [t \in Instants |-> <<>>]
    /\ procs = <<>>
    /\ hist = <<>>
    /\ ExtraInit

\* last_timestamp = utils.get_last_file_timestamp(results_dir)
Scan ==
    /\ scanned = <<>>
    /\ scanned' = <<get_last_file_timestamp(listing)>>
    /\ UNCHANGED <<files, clock, call, prev, ncalls, recorded, listing, procs, hist, extraVars>>

ScanNext == Scan

ScanSpec == ScanInit /\ [][ScanNext]_vars

\* the instants of the listed names whose stem is a number
listed_instants ==
    {int(split_first(listing[i]))[1] :
        i \in {j \in 1..Len(listing) : int(split_first(listing[j])) # None}}

\* C10: the latest-instant scan returns the maximum instant of the entries
\* whose stem is a number, None when there is no such entry, and skips the
\* entries whose stem is no number; for snapshots at 5, 9 and 3 it returns 9.
C10_ScanIsMax ==
    scanned # <<>> =>
        /\ IF listed_instants = {} THEN scanned[1] = None
           ELSE /\ scanned[1] # None
                /\ scanned[1][1] \in listed_instants
                /\ \A t \in listed_instants : t <= scanned[1][1]
        /\ {listing[i] : i \in 1..Len(listing)} = {pkl_name(5), pkl_name(9), pkl_name(3)}
              => scanned[1] = Some(9)
        /\ listing = <<>> => scanned[1] = None
        /\ (\E i \in 1..Len(listing) : listing[i] = pkl_name(10))
              => scanned[1] = Some(10)

\* C10 witness: the greatest instant was listed first, before a name that is
\* no number and a smaller instant, and the scan returned it.
C10_Witness ==
    /\ listing = <<pkl_name(10), <<"a", "b", "c", ".", "p", "k", "l">>, pkl_name(9)>>
    /\ scanned = <<Some(10)>>

-----------------------------------------------------------------------------
(* ConcSpec: two processes (two runs of the program, as from a scheduler)   *)
(* call the wrapper on the same partition.  Each step is one access to the  *)
(* shared directory or clock: the listing, the clock reading, the fetch,    *)
(* open(file_path, "wb"), each write() of the dump, and the load.           *)

Procs == {"A", "B"}

\* what `method(self)` does in ConcSpec: raises, returns the empty list, or
\* returns one of two lists of different lengths
ConcOutcomes ==
    {[raised |-> TRUE, value |-> <<>>]}
    \cup {[raised |-> FALSE, value |-> p] : p \in {<<>>, <<"i-1">>, <<"i-2", "i-1">>}}

\* a process that has not called the wrapper; after a call a process stays
\* at "done", holding what the call returned, until it calls again
Idle ==
    [pc |-> "idle", force |-> FALSE, last |-> None, now |-> 0, path |-> "NONE",
     results |-> <<>>, raised |-> "", rest |-> <<>>, off |-> 0]

\* a hole left in a file by a write past its end
Hole == "\\0"

RECURSIVE holes(_)
holes(n) == IF n <= 0 THEN <<>> ELSE <<Hole>> \o holes(n - 1)

\* write(fd, chunk) at the writer's own offset: bytes at the offset are
\* replaced, and a write past the end of file leaves a hole before it
write_at(content, off, chunk) ==
    IF off >= Len(content)
    THEN content \o holes(off - Len(content)) \o chunk
    ELSE SubSeq(content, 1, off) \o chunk
         \o SubSeq(content, off + Len(chunk) + 1, Len(content))

ConcInit ==
    /\ files = EmptyDir
    /\ clock = 0
    /\ call = NoCall
    /\ prev = NoCall
    /\ ncalls = 0
    /\ recorded = [t \in Instants |-> <<>>]
    /\ listing = <<>>
    /\ scanned = <<>>
    /\ procs = [p \in Procs |-> Idle]
    /\ hist = [lastfetch |-> None, opened |-> {}]
    /\ ExtraInit

\* line 102: last_timestamp = utils.get_last_file_timestamp(results_dir)
Enter(p, force_grab, names) ==
    /\ procs[p].pc \in {"idle", "done"}
    /\ ncalls < MaxRuns
    /\ ncalls' = ncalls + 1
    /\ procs' = [procs EXCEPT ![p] =
                    [Idle EXCEPT !.pc = "clock", !.force = force_grab,
                                 !.last = get_last_file_timestamp(names)]]
    /\ UNCHANGED <<files, clock, call, prev, recorded, listing, scanned, hist, extraVars>>

\* lines 105-108: epoch_secs is read and the path is chosen
Decide(p) ==
    /\ procs[p].pc = "clock"
    /\ LET refresh == must_refresh(procs[p].force, procs[p].last, clock)
       IN  procs' = [procs EXCEPT ![p].now = clock,
                                  ![p].path = IF refresh THEN "REFRESH" ELSE "REUSE",
                                  ![p].pc = IF refresh THEN "fetch" ELSE "load"]
    /\ UNCHANGED <<files, clock, call, prev, ncalls, recorded, listing, scanned, hist, extraVars>>

\* lines 110-116: the method is called; a false result ends the call
Fetch(p, outcome) ==
    /\ procs[p].pc = "fetch"
    /\ LET results == fetch_results(outcome)
       IN  /\ procs' = [procs EXCEPT ![p].results = results,
                                     ![p].pc = IF truthy(results) THEN "open" ELSE "done"]
           /\ hist' = IF truthy(results)
                      THEN [hist EXCEPT !.lastfetch = Some(procs[p].now)]
                      ELSE hist
    /\ UNCHANGED <<files, clock, call, prev, ncalls, recorded, listing, scanned, extraVars>>

\* line 125: open(file_path, "wb") creates the file or truncates it
Open(p) ==
    /\ procs[p].pc = "open"
    /\ files' = write_file(files, pkl_name(procs[p].now), <<>>)
    /\ hist' = [hist EXCEPT !.opened = @ \cup {procs[p].now}]
    /\ procs' = [procs EXCEPT ![p].rest = pickle_dump(procs[p].results),
                              ![p].off = 0,
                              ![p].pc = "dump"]
    /\ UNCHANGED <<clock, call, prev, ncalls, recorded, listing, scanned, extraVars>>

\* line 126: cPickle.dump reaches the file in one write() call, or in two:
\* one when the file object's buffer fills, after any k tokens, and one for
\* the rest at the close that leaves the `with` block
Write(p, k) ==
    /\ procs[p].pc = "dump"
    /\ k \in 1..Len(procs[p].rest)
    /\ procs[p].off > 0 => k = Len(procs[p].rest)
    /\ LET name == pkl_name(procs[p].now)
           chunk == SubSeq(procs[p].rest, 1, k)
           rest == SubSeq(procs[p].rest, k + 1, Len(procs[p].rest))
       IN  /\ files' = IF exists(files, name)
                       THEN write_file(files, name,
                                       write_at(files[name], procs[p].off, chunk))
                       ELSE files   \* unlinked meanwhile: the bytes go with it
           /\ procs' = [procs EXCEPT ![p].rest = rest,
                                     ![p].off = @ + k,
                                     ![p].pc = IF rest = <<>> THEN "done" ELSE "dump"]
    /\ UNCHANGED <<clock, call, prev, ncalls, recorded, listing, scanned, hist, extraVars>>

\* lines 125-126: a write() fails (disk full) or the process is interrupted;
\* the file stays as far as it was written and the error leaves the wrapper
Interrupted(p) ==
    /\ procs[p].pc = "dump"
    /\ procs' = [procs EXCEPT ![p].raised = "IOError", ![p].results = <<>>,
                              ![p].pc = "done"]
    /\ UNCHANGED <<files, clock, call, prev, ncalls, recorded, listing, scanned, hist, extraVars>>

\* lines 128-130: the latest file is opened and loaded
Load(p) ==
    /\ procs[p].pc = "load"
    /\ LET got == load_results(files, procs[p].last)
       IN  procs' = [procs EXCEPT ![p].results = got.value,
                                  ![p].raised = got.raised,
                                  ![p].pc = "done"]
    /\ UNCHANGED <<files, clock, call, prev, ncalls, recorded, listing, scanned, hist, extraVars>>

ConcNext ==
    \/ \E p \in Procs, force_grab \in BOOLEAN, names \in listdir(files) :
          Enter(p, force_grab, names)
    \/ \E p \in Procs : Decide(p)
    \/ \E p \in Procs, outcome \in ConcOutcomes : Fetch(p, outcome)
    \/ \E p \in Procs : Open(p)
    \/ \E p \in Procs, k \in 1..(2 * Cardinality(Records) + 2) : Write(p, k)
    \/ \E p \in Procs : Interrupted(p)
    \/ \E p \in Procs : Load(p)
    \/ Tick

ConcSpec == ConcInit /\ [][ConcNext]_vars

-----------------------------------------------------------------------------
\* every call of the wrapper has finished
Quiescent == \A p \in Procs : procs[p].pc \in {"idle", "done"}

\* the lists a fetch of ConcSpec stores
StoredPayloads == {o.value : o \in {x \in ConcOutcomes : truthy(fetch_results(x))}}

\* C6: a reader that loads the snapshot the latest-instant scan reported gets
\* a complete payload, whatever a concurrent writer is doing and also after
\* a write that failed part-way: the load does not fail and returns a list
\* that a fetch stored.
C6_ReadersSeeComplete ==
    \A p \in Procs :
        (procs[p].pc = "done" /\ procs[p].path = "REUSE")
        => /\ procs[p].raised = ""
           /\ procs[p].results \in StoredPayloads

\* C7 as stated: once every call has finished, the snapshot a REUSE selects
\* is the one recorded by the most recent successful non-empty fetch.
C7_LatestIsMostRecentFetch ==
    (Quiescent /\ hist.lastfetch # None)
    => /\ ScanReturns(files, dir_latest(files))
       /\ dir_latest(files) = hist.lastfetch

\* C7 amended: once every call has finished, every REUSE selects the same
\* snapshot, in whatever order the directory lists: the one with the greatest
\* instant among the clock readings of the calls that stored a result.  It is
\* the snapshot of the most recent fetch only if that fetch read the greatest
\* clock value.
C7_ConvergeOnMaxInstant ==
    Quiescent =>
        /\ UniqueInstants(files)
        /\ dir_instants(files) = hist.opened
        /\ ScanReturns(files, dir_latest(files))
        /\ \A t \in hist.opened :
              dir_latest(files) # None /\ t <= dir_latest(files)[1]
        /\ hist.opened = {} => ScanReturns(files, None)

\* C7 witness: two calls have finished, each stored a snapshot, and the
\* latest snapshot is not the one of the fetch that ended last.
C7_Witness ==
    /\ \A p \in Procs : procs[p].pc = "done" /\ procs[p].path = "REFRESH"
                        /\ procs[p].raised = "" /\ truthy(procs[p].results)
    /\ Cardinality(hist.opened) = 2
    /\ hist.lastfetch # dir_latest(files)

-----------------------------------------------------------------------------
(* pollers/utils.py: cleanup_old_data *)

\* the regions of a run (the first of ALL_REGIONS), in iteration order
Regions == <<"us-east-1", "us-west-1">>

\* AWSRegionPollerFactory.INSTANCE_DATA_DIR and VOLUME_DATA_DIR
Kinds == {"instances", "volumes"}

\* the partitions of the tree: results/<ident>/<region>/<data dir>
Partitions == {<<Regions[i], k>> : i \in 1..Len(Regions), k \in Kinds}

\* lines 103-105: last_timestamp, last_filename, to_delete_files
cleanup_start == [last_timestamp |-> None, last_filename |-> <<>>, to_delete |-> {}]

\* faulty variant of cleanup_step: the else branch drops the file kept so far
cleanup_step_drops_kept(st, filename) ==
    LET timestamp == int(split_first(filename))
    IN  IF timestamp = None THEN st
        ELSE IF st.last_timestamp = None
        THEN [st EXCEPT !.last_timestamp = timestamp, !.last_filename = filename]
        ELSE IF timestamp[1] > st.last_timestamp[1]
        THEN [last_timestamp |-> timestamp, last_filename |-> filename,
              to_delete |-> st.to_delete \cup {st.last_filename}]
        ELSE [st EXCEPT !.to_delete = @ \cup {st.last_filename}]

\* faulty variant of cleanup_step: the snapshot listed first is the one kept
cleanup_step_keeps_first(st, filename) ==
    LET timestamp == int(split_first(filename))
    IN  IF timestamp = None THEN st
        ELSE IF st.last_timestamp = None
        THEN [st EXCEPT !.last_timestamp = timestamp, !.last_filename = filename]
        ELSE [st EXCEPT !.to_delete = @ \cup {filename}]

\* faulty variant of cleanup_step: the first snapshot listed is marked too
cleanup_step_marks_first(st, filename) ==
    LET timestamp == int(split_first(filename))
    IN  IF timestamp = None THEN st
        ELSE IF st.last_timestamp = None
        THEN [last_timestamp |-> timestamp, last_filename |-> filename,
              to_delete |-> st.to_delete \cup {filename}]
        ELSE IF timestamp[1] > st.last_timestamp[1]
        THEN [last_timestamp |-> timestamp, last_filename |-> filename,
              to_delete |-> st.to_delete \cup {st.last_filename}]
        ELSE [st EXCEPT !.to_delete = @ \cup {filename}]

\* lines 107-122, one turn of the loop over the partition's listing
cleanup_step(st, filename) ==
    LET timestamp == int(split_first(filename))
    IN  IF timestamp = None THEN st
        ELSE IF st.last_timestamp = None
        THEN [st EXCEPT !.last_timestamp = timestamp, !.last_filename = filename]
        ELSE IF timestamp[1] > st.last_timestamp[1]
        THEN [last_timestamp |-> timestamp, last_filename |-> filename,
              to_delete |-> st.to_delete \cup {st.last_filename}]
        ELSE [st EXCEPT !.to_delete = @ \cup {filename}]

RECURSIVE cleanup_scan(_, _)
cleanup_scan(names, st) ==
    IF names = <<>> THEN st
    ELSE cleanup_scan(Tail(names), cleanup_step(st, Head(names)))

\* lines 124-126: os.remove of every file marked
remove_files(dir, to_delete) == [f \in DOMAIN dir \ to_delete |-> dir[f]]

\* lines 101-128 for one data dir, listed as `names`
cleanup_dir(dir, names) ==
    remove_files(dir, cleanup_scan(names, cleanup_start).to_delete)

\* lines 94-128: every data dir of every region of the account, each listed
\* in the order `orders` gives
cleanup_old_data(t, orders) ==
    [part \in DOMAIN t |-> cleanup_dir(t[part], orders[part])]

-----------------------------------------------------------------------------
(* PruneSpec: cleanup_old_data on trees that hold snapshots, named as the   *)
(* wrapper names them, and entries that are no snapshots, every directory   *)
(* listed in every order.                                                   *)

\* entries that are no snapshots
BadNames ==
    {<<"R", "E", "A", "D", "M", "E">>,
     <<"a", "b", "c", ".", "p", "k", "l">>,
     <<".", "p", "k", "l">>}

PruneNames == {pkl_name(3), pkl_name(5), pkl_name(10)} \cup BadNames

\* what a file of the tree holds
content_of(name) ==
    IF name \in BadNames THEN <<>>
    ELSE IF name = pkl_name(5) THEN pickle_dump(<<"i-1">>)
    ELSE pickle_dump(<<"i-2", "i-1">>)

\* the partitions of an account polled in one region
PrunePartitions == {<<Regions[1], k>> : k \in Kinds}

\* the trees with up to MaxEntries files over these partitions
PruneTrees ==
    {[part \in PrunePartitions |-> [n \in ns[part] |-> content_of(n)]]
     : ns \in {x \in [PrunePartitions -> SUBSET PruneNames] :
                  Cardinality(x[<<Regions[1], "instances">>])
                  + Cardinality(x[<<Regions[1], "volumes">>]) <= MaxEntries}}

PruneInit ==
    /\ tree \in PruneTrees
    /\ pruned = NoPrune
    /\ run = <<>>
    /\ conv = <<>>
    /\ report = <<>>
    /\ files = EmptyDir
    /\ clock = 0
    /\ call = NoCall
    /\ prev = NoCall
    /\ ncalls = 0
    /\ recorded = [t \in Instants |-> <<>>]
    /\ listing = <<>>
    /\ scanned = <<>>
    /\ procs = <<>>
    /\ hist = <<>>

\* python utils.py --cleanup
Cleanup(orders) ==
    /\ pruned.runs < MaxRuns
    /\ tree' = cleanup_old_data(tree, orders)
    /\ pruned' = [runs |-> pruned.runs + 1,
                  first |-> IF pruned.runs = 0 THEN tree ELSE pruned.first,
                  before |-> tree, orders |-> orders]
    /\ UNCHANGED <<files, clock, call, prev, ncalls, recorded, listing, scanned,
                   procs, hist, run, conv, report>>

PruneNext ==
    \E oi \in listdir(tree[<<Regions[1], "instances">>]),
       ov \in listdir(tree[<<Regions[1], "volumes">>]) :
        Cleanup([part \in PrunePartitions |->
                    IF part[2] = "instances" THEN oi ELSE ov])

PruneSpec == PruneInit /\ [][PruneNext]_vars

\* the snapshot names of a directory: the entries whose stem is a number
snapshot_names(dir) == {n \in DOMAIN dir : int(split_first(n)) # None}

\* C11: in every partition and for every listing order, prune deletes every
\* snapshot but the one with the maximum instant, keeps that one as it was,
\* and leaves every entry with a non-numeric name in place.
C11_PruneKeepsOnlyLatest ==
    pruned.runs > 0 =>
        \A part \in PrunePartitions :
            LET b == pruned.before[part]
                a == tree[part]
            IN  /\ DOMAIN a \subseteq DOMAIN b
                /\ \A n \in DOMAIN a : a[n] = b[n]
                /\ DOMAIN b \ snapshot_names(b) \subseteq DOMAIN a
                /\ snapshot_names(a) =
                      {n \in snapshot_names(b) :
                          \A m \in snapshot_names(b) :
                              int(split_first(m))[1] <= int(split_first(n))[1]}
                /\ snapshot_names(b) # {} => Cardinality(snapshot_names(a)) = 1

\* C11 witness: a partition listed with its latest snapshot first, then an
\* entry that is no snapshot, then an older snapshot, has lost the older one.
C11_Witness ==
    /\ pruned.runs = 1
    /\ \E part \in PrunePartitions :
          /\ pruned.orders[part] =
                <<pkl_name(10), <<"R", "E", "A", "D", "M", "E">>, pkl_name(5)>>
          /\ DOMAIN tree[part] = {pkl_name(10), <<"R", "E", "A", "D", "M", "E">>}

-----------------------------------------------------------------------------
(* RaceSpec: the two processes of ConcSpec on a partition that already      *)
(* holds a snapshot from an earlier run, while an operator runs             *)
(* cleanup_old_data on the same partition.                                  *)

RaceInit ==
    /\ files = write_file(EmptyDir, pkl_name(0), pickle_dump(<<"i-1">>))
    /\ clock = 0
    /\ call = NoCall
    /\ prev = NoCall
    /\ ncalls = 0
    /\ recorded = [t \in Instants |-> IF t = 0 THEN <<<<"i-1">>>> ELSE <<>>]
    /\ listing = <<>>
    /\ scanned = <<>>
    /\ procs = [p \in Procs |-> Idle]
    /\ hist = [lastfetch |-> Some(0), opened |-> {0}]
    /\ ExtraInit

\* cleanup_old_data reaches the partition and lists it as `names`; the
\* listing, the marking and the removals take place between two steps of
\* the wrapper
Prune(names) ==
    /\ files' = cleanup_dir(files, names)
    /\ UNCHANGED <<clock, call, prev, ncalls, recorded, listing, scanned, procs,
                   hist, extraVars>>

RaceNext ==
    \/ ConcNext
    \/ \E names \in listdir(files) : Prune(names)

RaceSpec == RaceInit /\ [][RaceNext]_vars

\* C12: on the REUSE path, when the snapshot at the instant the scan reported
\* is gone at the time of the read, the call ends with an error that leaves
\* the wrapper: no result is returned in its place.
C12_ReadFailureSurfaced ==
    [][\A p \in Procs :
          (/\ procs[p].pc = "load"
           /\ procs'[p].pc = "done"
           /\ ~exists(files, pkl_name(procs[p].last[1])))
          => /\ procs'[p].raised = "IOError"
             /\ procs'[p].path = "REUSE"]_vars

\* C12 witness: a call that chose REUSE for instant 0 has ended with the
\* error after a prune removed 0.pkl in favour of a later snapshot.
C12_Witness ==
    /\ exists(files, pkl_name(1))
    /\ ~exists(files, pkl_name(0))
    /\ \E p \in Procs :
          /\ procs[p].pc = "done"
          /\ procs[p].path = "REUSE"
          /\ procs[p].last = Some(0)
          /\ procs[p].raised = "IOError"

-----------------------------------------------------------------------------
(* AggSpec: one run of AWSRegionPollerFactory.run over Regions, each call   *)
(* of get_instances and get_volumes a step, on a tree whose partitions are  *)
(* empty, hold a snapshot of an earlier run, or hold one that an earlier    *)
(* run left half written.                                                   *)

\* a snapshot whose dump was cut short
torn == SubSeq(pickle_dump(<<"i-1">>), 1, 1)

AggDirs ==
    {EmptyDir,
     write_file(EmptyDir, pkl_name(0), pickle_dump(<<"i-1">>)),
     write_file(EmptyDir, pkl_name(0), torn)}

\* run() has not been called
NoRun ==
    [pc |-> "idle", i |-> 1, force |-> FALSE, all_instances |-> <<>>,
     all_volumes |-> <<>>, log |-> <<>>, rendered |-> FALSE]

AggInit ==
    /\ tree \in [Partitions -> AggDirs]
    /\ run = NoRun
    /\ clock = 0
    /\ files = EmptyDir
    /\ call = NoCall
    /\ prev = NoCall
    /\ ncalls = 0
    /\ recorded = [t \in Instants |-> <<>>]
    /\ listing = <<>>
    /\ scanned = <<>>
    /\ procs = <<>>
    /\ hist = <<>>
    /\ pruned = NoPrune
    /\ conv = <<>>
    /\ report = <<>>

\* faulty variant of extend: the new results go in front
extend_front(all, results) == results \o all

\* list.extend, lines 208-209
extend(all, results) == all \o results

\* faulty variant of propagates: a failed fetch leaves the wrapper too
propagates_fetch_failure(c) == c.raised # "" \/ (c.fetched /\ c.outcome.raised)

\* an exception leaves the wrapper, and with it run(), which has no handler
propagates(c) == c.raised # ""

\* what a call of a polling method leaves in the log of the run
log_entry(part, c) ==
    [part |-> part, fetched |-> c.fetched, failed |-> c.fetched /\ c.outcome.raised,
     raised |-> c.raised, results |-> c.results]

\* main, lines 326-343, and run, lines 198-201
Start(force_grab) ==
    /\ run.pc = "idle"
    /\ run' = [NoRun EXCEPT !.pc = "instances", !.force = force_grab]
    /\ UNCHANGED <<files, clock, call, prev, ncalls, recorded, listing, scanned,
                   procs, hist, tree, pruned, conv, report>>

\* lines 204-208: the poller of region i is built and get_instances called
PollInstances(outcome, names) ==
    /\ run.pc = "instances"
    /\ LET part == <<Regions[run.i], "instances">>
           c == wrapper(tree[part], names, clock, run.force, outcome)
       IN  /\ tree' = [tree EXCEPT ![part] = c.after]
           /\ run' = [run EXCEPT
                        !.log = Append(@, log_entry(part, c)),
                        !.all_instances = IF propagates(c) THEN @ ELSE extend(@, c.results),
                        !.pc = IF propagates(c) THEN "aborted" ELSE "volumes"]
    /\ UNCHANGED <<files, clock, call, prev, ncalls, recorded, listing, scanned,
                   procs, hist, pruned, conv, report>>

\* line 209: get_volumes of the same poller, then the next region
PollVolumes(outcome, names) ==
    /\ run.pc = "volumes"
    /\ LET part == <<Regions[run.i], "volumes">>
           c == wrapper(tree[part], names, clock, run.force, outcome)
       IN  /\ tree' = [tree EXCEPT ![part] = c.after]
           /\ run' = [run EXCEPT
                        !.log = Append(@, log_entry(part, c)),
                        !.all_volumes = IF propagates(c) THEN @ ELSE extend(@, c.results),
                        !.i = IF propagates(c) \/ @ = Len(Regions) THEN @ ELSE @ + 1,
                        !.pc = IF propagates(c) THEN "aborted"
                               ELSE IF run.i = Len(Regions) THEN "return"
                               ELSE "instances"]
    /\ UNCHANGED <<files, clock, call, prev, ncalls, recorded, listing, scanned,
                   procs, hist, pruned, conv, report>>

\* line 211 and main, lines 345-349: the report is rendered when there are
\* volumes
Return ==
    /\ run.pc = "return"
    /\ run' = [run EXCEPT !.pc = "done", !.rendered = truthy(run.all_volumes)]
    /\ UNCHANGED <<files, clock, call, prev, ncalls, recorded, listing, scanned,
                   procs, hist, tree, pruned, conv, report>>

\* a second passes during the run
AggTick ==
    /\ clock + 1 \in Instants
    /\ clock' = clock + 1
    /\ UNCHANGED <<files, call, prev, ncalls, recorded, listing, scanned,
                   procs, hist, extraVars>>

AggNext ==
    \/ \E force_grab \in BOOLEAN : Start(force_grab)
    \/ \E outcome \in ConcOutcomes,
          names \in listdir(tree[<<Regions[run.i], "instances">>]) :
          PollInstances(outcome, names)
    \/ \E outcome \in ConcOutcomes,
          names \in listdir(tree[<<Regions[run.i], "volumes">>]) :
          PollVolumes(outcome, names)
    \/ Return
    \/ AggTick

AggSpec == AggInit /\ [][AggNext]_vars

\* the results of the calls of one kind that returned, in log order
RECURSIVE flat(_, _)
flat(log, kind) ==
    IF log = <<>> THEN <<>>
    ELSE (IF Head(log).part[2] = kind /\ Head(log).raised = ""
          THEN Head(log).results ELSE <<>>)
         \o flat(Tail(log), kind)

-----------------------------------------------------------------------------
(* VolSpec: AWSRegionPoller.get_volumes on the poller that                  *)
(* get_region_poller builds, for every short sequence of provider volumes.  *)

\* namedtuple EBSVolume, line 37
EBSVolume(id, status, size, type, instance_id) ==
    [id |-> id, status |-> status, size |-> size, type |-> type,
     instance_id |-> instance_id]

VolumeIds == {"vol-1", "vol-2", "vol-3"}

\* a boto volume: attach_data.instance_id is empty when it is not attached
ProviderVolumes ==
    {[id |-> v, status |-> IF a = "" THEN "available" ELSE "in-use",
      size |-> 8, type |-> "gp2", attach_data |-> [instance_id |-> a]]
     : v \in VolumeIds, a \in {"", "i-1"}}

\* what get_all_volumes() returns: volumes of different ids, in some order
VolumeLists ==
    {vs \in UNION {[1..n -> ProviderVolumes] : n \in 0..Cardinality(VolumeIds)} :
        \A i, j \in 1..Len(vs) : i # j => vs[i].id # vs[j].id}

\* AWSRegionPollerFactory.__init__, lines 163-171, as far as pollers go
factory(include_rogue_volumes, force_grab) ==
    [include_rogue_volumes |-> include_rogue_volumes, force_grab |-> force_grab]

\* get_region_poller, line 190, and AWSRegionPoller.__init__, lines 232-242:
\* the attributes the poller is given
get_region_poller(fac, region) ==
    [connection |-> region, region_name |-> region, force_grab |-> fac.force_grab,
     results_dir |-> region]

\* the locals of get_volumes: all_volumes, new_volume (unbound at first) and
\* the exception that ended the loop, if any
volumes_start == [all_volumes |-> <<>>, new_volume |-> None, raised |-> ""]

\* lines 255-262, one turn of the loop
volumes_step(self, st, volume) ==
    IF st.raised # "" THEN st
    ELSE IF volume.attach_data.instance_id # ""
    THEN LET new_volume == EBSVolume(volume.id, volume.status, volume.size,
                                     volume.type, volume.attach_data.instance_id)
         IN  [st EXCEPT !.new_volume = Some(new_volume),
                        !.all_volumes = Append(@, new_volume)]
    ELSE IF "include_rogue_volumes" \notin DOMAIN self
    THEN [st EXCEPT !.raised = "AttributeError"]
    ELSE IF self.include_rogue_volumes
    THEN LET new_volume == EBSVolume(volume.id, volume.status, volume.size,
                                     volume.type, "")
         IN  [st EXCEPT !.new_volume = Some(new_volume),
                        !.all_volumes = Append(@, new_volume)]
    ELSE IF st.new_volume = None
    THEN [st EXCEPT !.raised = "UnboundLocalError"]
    ELSE [st EXCEPT !.all_volumes = Append(@, st.new_volume[1])]

RECURSIVE volumes_loop(_, _, _)
volumes_loop(self, st, volumes) ==
    IF volumes = <<>> THEN st
    ELSE volumes_loop(self, volumes_step(self, st, Head(volumes)), Tail(volumes))

\* the undecorated get_volumes, lines 251-264
get_volumes(self, volumes) ==
    LET st == volumes_loop(self, volumes_start, volumes)
    IN  [raised |-> st.raised # "", value |-> IF st.raised # "" THEN <<>> ELSE st.all_volumes]

VolInit ==
    /\ conv \in [volumes : VolumeLists, include : BOOLEAN, called : {FALSE},
                error : {""}, returned : {<<>>}]
    /\ tree = <<>>
    /\ pruned = NoPrune
    /\ run = <<>>
    /\ report = <<>>
    /\ files = EmptyDir
    /\ clock = 0
    /\ call = NoCall
    /\ prev = NoCall
    /\ ncalls = 0
    /\ recorded = [t \in Instants |-> <<>>]
    /\ listing = <<>>
    /\ scanned = <<>>
    /\ procs = <<>>
    /\ hist = <<>>

\* get_volumes() is called on a poller of a factory made with the flag, on
\* an empty partition: the wrapper calls the method and returns its result,
\* or [] when it raised (lines 110-114)
GetVolumes ==
    LET self == get_region_poller(factory(conv.include, FALSE), Regions[1])
        st == volumes_loop(self, volumes_start, conv.volumes)
    IN  /\ ~conv.called
        /\ conv' = [conv EXCEPT !.called = TRUE,
                                !.error = st.raised,
                                !.returned = fetch_results(get_volumes(self, conv.volumes))]
        /\ UNCHANGED <<files, clock, call, prev, ncalls, recorded, listing, scanned,
                       procs, hist, tree, pruned, run, report>>

VolNext == GetVolumes

VolSpec == VolInit /\ [][VolNext]_vars

\* the records the flag asks for: every attached volume with its instance
\* id and, when the flag is set, every unattached one with none
RECURSIVE wanted(_, _)
wanted(include, volumes) ==
    IF volumes = <<>> THEN <<>>
    ELSE LET v == Head(volumes)
         IN  (IF v.attach_data.instance_id # "" \/ include
              THEN <<EBSVolume(v.id, v.status, v.size, v.type,
                               v.attach_data.instance_id)>>
              ELSE <<>>)
             \o wanted(include, Tail(volumes))

\* C15: get_volumes returns each attached volume once with its instance id,
\* each unattached volume once with an empty instance_id when
\* include_rogue_volumes is set, and no record for it when it is not set.
C15_VolumesPerFlag ==
    conv.called => conv.returned = wanted(conv.include, conv.volumes)

-----------------------------------------------------------------------------
(* ReportSpec: output_to_table on every short list of volumes and of        *)
(* instances that a run can hand to it.                                     *)

\* namedtuple EC2Instance, line 40
EC2Instance(id, state, type) == [id |-> id, state |-> state, type |-> type]

\* line 56
MISSING_TEXT == "NOT FOUND"

\* the volumes of a run: ids differ, and a volume names a known instance,
\* an instance that is in no list, or none
ReportVolumes ==
    {vs \in UNION {[1..n -> {EBSVolume(v, "in-use", 8, "gp2", a) :
                               v \in VolumeIds, a \in {"i-1", "i-404", ""}}]
                   : n \in 1..Cardinality(VolumeIds)} :
        \A i, j \in 1..Len(vs) : i # j => vs[i].id # vs[j].id}

\* the instances of a run: ids differ
ReportInstances ==
    {is \in UNION {[1..n -> {EC2Instance(i, st, "t2.micro") :
                               i \in Records, st \in {"running", "stopped"}}]
                   : n \in 0..Cardinality(Records)} :
        \A i, j \in 1..Len(is) : i # j => is[i].id # is[j].id}

\* line 60: {inst.id: inst for inst in ec2_instances}; a later instance of
\* the same id replaces an earlier one
RECURSIVE instance_dict(_)
instance_dict(ec2_instances) ==
    IF ec2_instances = <<>> THEN <<>>
    ELSE LET n == Len(ec2_instances)
             inst == ec2_instances[n]
             rest == instance_dict(SubSeq(ec2_instances, 1, n - 1))
         IN  [k \in DOMAIN rest \cup {inst.id} |->
                 IF k = inst.id THEN inst ELSE rest[k]]

\* line 79: "%.1fGB" % volume.size, for a whole number of GB
format_size(size) == str(size) \o <<".", "0", "G", "B">>

\* lines 65-79: the row of a volume
table_row(dict, volume) ==
    LET found == volume.instance_id \in DOMAIN dict
        instance == dict[volume.instance_id]
    IN  ("Instance ID" :> (IF found THEN instance.id ELSE MISSING_TEXT))
        @@ ("Instance Type" :> (IF found THEN instance.type ELSE MISSING_TEXT))
        @@ ("Instance State" :> (IF found THEN instance.state ELSE MISSING_TEXT))
        @@ ("Volume ID" :> volume.id)
        @@ ("Volume Status" :> volume.status)
        @@ ("Volume Size" :> format_size(volume.size))

\* lines 62-81: the loop over the volumes
RECURSIVE table_rows(_, _)
table_rows(dict, ebs_volumes) ==
    IF ebs_volumes = <<>> THEN <<>>
    ELSE <<table_row(dict, Head(ebs_volumes))>>
         \o table_rows(dict, Tail(ebs_volumes))

\* faulty variant of output_to_table: a volume without its instance gets no
\* row
output_to_table_found_only(ebs_volumes, ec2_instances) ==
    LET dict == instance_dict(ec2_instances)
        found(volume) == volume.instance_id \in DOMAIN dict
    IN  table_rows(dict, SelectSeq(ebs_volumes, found))

\* lines 43-83: the rows handed to tabulate
output_to_table(ebs_volumes, ec2_instances) ==
    table_rows(instance_dict(ec2_instances), ebs_volumes)

ReportInit ==
    /\ report \in [ebs_volumes : ReportVolumes, ec2_instances : ReportInstances,
                   printed : {FALSE}, table : {<<>>}]
    /\ tree = <<>>
    /\ pruned = NoPrune
    /\ run = <<>>
    /\ conv = <<>>
    /\ files = EmptyDir
    /\ clock = 0
    /\ call = NoCall
    /\ prev = NoCall
    /\ ncalls = 0
    /\ recorded = [t \in Instants |-> <<>>]
    /\ listing = <<>>
    /\ scanned = <<>>
    /\ procs = <<>>
    /\ hist = <<>>

\* main, lines 345-347: the table is printed
OutputToTable ==
    /\ ~report.printed
    /\ report' = [report EXCEPT
                    !.printed = TRUE,
                    !.table = output_to_table(report.ebs_volumes, report.ec2_instances)]
    /\ UNCHANGED <<files, clock, call, prev, ncalls, recorded, listing, scanned,
                   procs, hist, tree, pruned, run, conv>>

ReportNext == OutputToTable

ReportSpec == ReportInit /\ [][ReportNext]_vars

\* C16: the table has one row per volume, in volume order; the row of a
\* volume whose instance_id is the id of a listed instance shows that
\* instance's id, type and state, and the row of any other volume shows
\* NOT FOUND in the three instance fields.
C16_OneRowPerVolume ==
    report.printed =>
        /\ Len(report.table) = Len(report.ebs_volumes)
        /\ \A k \in 1..Len(report.ebs_volumes) :
              LET volume == report.ebs_volumes[k]
                  row == report.table[k]
                  owners == {j \in 1..Len(report.ec2_instances) :
                                report.ec2_instances[j].id = volume.instance_id}
              IN  /\ row["Volume ID"] = volume.id
                  /\ owners = {} =>
                        /\ row["Instance ID"] = "NOT FOUND"
                        /\ row["Instance Type"] = "NOT FOUND"
                        /\ row["Instance State"] = "NOT FOUND"
                  /\ \A j \in owners :
                        /\ row["Instance ID"] = report.ec2_instances[j].id
                        /\ row["Instance Type"] = report.ec2_instances[j].type
                        /\ row["Instance State"] = report.ec2_instances[j].state

\* C16 witness: a printed table whose first row shows instance i-1 stopped
\* and whose second row, of a volume naming i-404, shows NOT FOUND.
C16_Witness ==
    /\ report.printed
    /\ Len(report.table) = 2
    /\ report.ebs_volumes[2].instance_id = "i-404"
    /\ report.table[1]["Instance ID"] = "i-1"
    /\ report.table[1]["Instance State"] = "stopped"
    /\ report.table[2]["Instance ID"] = "NOT FOUND"
    /\ report.table[2]["Volume ID"] = report.ebs_volumes[2].id

-----------------------------------------------------------------------------
(* MaintSpec: the calls of Spec on one partition, with runs of              *)
(* cleanup_old_data between them.                                           *)

\* a run of the program calls the wrapper on the partition
MaintCall(force_grab, outcome, names) ==
    /\ ncalls < MaxRuns
    /\ LET c == wrapper(files, names, clock, force_grab, outcome)
       IN  /\ files' = c.after
           /\ call' = c
           /\ prev' = [call EXCEPT !.before = EmptyDir, !.after = EmptyDir]
           /\ recorded' = record_write(recorded, c)
    /\ ncalls' = ncalls + 1
    /\ UNCHANGED <<clock, otherVars>>

MaintNext ==
    \/ \E force_grab \in BOOLEAN, outcome \in Outcomes, names \in listdir(files) :
          MaintCall(force_grab, outcome, names)
    \/ \E names \in listdir(files) : Prune(names)
    \/ Tick
    \/ NextDay
    \/ ClockBack

MaintSpec == Init /\ [][MaintNext]_vars

\* C17: once a fetch has been stored in the partition, the partition holds
\* at least one snapshot in every later state, whatever calls and prune
\* runs follow.
C17_NeverBackToEmpty ==
    (\E t \in Instants : recorded[t] # <<>>) => snapshot_names(files) # {}

\* C17 witness: fetches were stored at two instants and a prune after them
\* has left one snapshot, the later one.
C17_Witness ==
    /\ recorded[0] # <<>>
    /\ recorded[1] # <<>>
    /\ DOMAIN files = {pkl_name(1)}

-----------------------------------------------------------------------------
(* The wrapper's effect on the partition, checked on the calls of Spec.     *)

\* C18: whatever path a call takes, every snapshot instant the partition
\* held before the call is held after it, and the partition is left as the
\* wrapper left it: nothing else, such as a prune, has run.
C18_WrapperKeepsSnapshots ==
    call.path # "NONE" =>
        /\ dir_instants(call.before) \subseteq dir_instants(call.after)
        /\ files = call.after

\* C18 witness: a refresh whose fetch failed, after one whose fetch was
\* stored next to an older snapshot, has left both snapshots in place.
C18_Witness ==
    /\ call.path = "REFRESH"
    /\ call.outcome.raised
    /\ prev.path = "REFRESH"
    /\ prev.results # <<>>
    /\ dir_instants(call.before) = {0, 1}
    /\ dir_instants(files) = {0, 1}

\* C20: a call that takes REUSE fetches nothing, leaves the files of the
\* partition as they were, and returns the payload last stored at the
\* maximum instant of the partition.
C20_ReuseHasNoEffect ==
    call.path = "REUSE" =>
        /\ ~call.fetched
        /\ call.after = call.before
        /\ files = call.before
        /\ call.raised = ""
        /\ LET t == dir_latest(call.before)[1]
           IN  call.results = recorded[t][Len(recorded[t])]

\* C20 witness: a REUSE call on a partition with two snapshots of different
\* payloads has returned the later one's.
C20_Witness ==
    /\ call.path = "REUSE"
    /\ dir_instants(files) = {0, 1}
    /\ recorded[0] = <<<<"i-1">>>>
    /\ recorded[1] = <<<<"i-1", "i-2">>>>
    /\ call.results = <<"i-1", "i-2">>

-----------------------------------------------------------------------------
(* What readers see across a prune, checked on the runs of PruneSpec.       *)

\* C19: in every partition the latest-instant scan returns after a prune
\* what it returned before it, for every listing order, and the payload
\* read at that instant is the same; a prune that follows a prune deletes
\* nothing.
C19_PruneKeepsReadersView ==
    pruned.runs > 0 =>
        /\ \A part \in PrunePartitions :
              LET b == pruned.before[part]
                  a == tree[part]
                  t == dir_latest(b)
              IN  /\ ScanReturns(b, t)
                  /\ ScanReturns(a, t)
                  /\ t # None =>
                        /\ payload_at(b, t[1]).raised = ""
                        /\ payload_at(a, t[1]) = payload_at(b, t[1])
        /\ pruned.runs > 1 => tree = pruned.before

\* C19 witness: a first prune has deleted the snapshots at 3 and 5 from a
\* partition and left the one at 10, and a second prune has run after it.
C19_Witness ==
    /\ pruned.runs = 2
    /\ tree = pruned.before
    /\ \E part \in PrunePartitions :
          /\ DOMAIN pruned.first[part] = {pkl_name(3), pkl_name(5), pkl_name(10)}
          /\ DOMAIN tree[part] = {pkl_name(10)}
          /\ payload_at(tree[part], 10).value = <<"i-2", "i-1">>

====
